---- MODULE Spec2Model ----
(***************************************************************************)
(* A model of the miniclangpp parser: src/src/parser.cpp (scope lookup,    *)
(* numeric literals, expressions, declarators) and                         *)
(* src/src/parse_statements.cpp (statements, translation unit).            *)
(*                                                                         *)
(* Strings are sequences of one-character strings, so that parse_number    *)
(* can index them: the lexeme 0x10 is <<"0", "x", "1", "0">>.              *)
(***************************************************************************)
EXTENDS Integers, Sequences, FiniteSets, TLC

VARIABLES
  lexer,    \* Lexer: [tokens, index]; tokens[index] is the current token
  scopes,   \* the Scope objects, by address 1..Len(scopes)
  pc,       \* where the modelled call stands
  arg,      \* the arguments of the modelled call
  ret,      \* what the modelled call returned
  tu        \* parse_translation_unit: its locals, the heap and the call stack

vars == <<lexer, scopes, pc, arg, ret, tu>>

\* ------------------------------------------------------------------ bounds

\* Names available to identifiers and typedefs.
Names == {<<"T">>, <<"x">>}

\* Longest scope chain drawn (global scope plus nested blocks).
MaxDepth == 2

\* nullptr
NULL == 0

\* A pointer read from memory nobody wrote.
UNINIT == -2

\* record with field f set to v
SetField(record, f, v) ==
  [x \in DOMAIN record \cup {f} |-> IF x = f THEN v ELSE record[x]]

\* record.f, or what malloc left when nobody set it
Field(record, f) == IF f \in DOMAIN record THEN record[f] ELSE UNINIT

\* The value of a call, named once for the code that follows it.
Bind(value, Op(_)) == CHOOSE y \in {Op(v) : v \in {value}} : TRUE

\* A call and the code after it: a callee that stopped parsing (a
\* diagnostic, a failed assertion, undefined behaviour) stops the caller.
Then(r, Op(_)) == Bind(r, LAMBDA v : IF v.status # "ok" THEN v ELSE Op(v))

\* ------------------------------------------------------------------ tokens

Tok(t) == [type |-> t, string |-> <<>>]
Id(n) == [type |-> "Identifier", string |-> n]
Num(s) == [type |-> "Number", string |-> s]

\* ------------------------------------------------------------------ lexer

\* get_current_token(lexer)
get_current_token(lx) == lx.tokens[lx.index]

\* get_next_token(lexer): advance and make the next token current; the
\* stream ends with Eof, which stays current once reached.
get_next_token(lx) ==
  [lx EXCEPT !.index = IF lx.index < Len(lx.tokens) THEN lx.index + 1 ELSE lx.index]

\* ------------------------------------------------------------------ scopes

Scope(vs, ts, p) == [variables |-> vs, typedef_names |-> ts, parent_scope |-> p]

\* variable_in_scope without the walk to parent_scope: it looks at the
\* starting scope only.
variable_in_scope_NoWalk(sc, variable_name, scope) ==
  IF scope = NULL THEN FALSE
  ELSE variable_name \in sc[scope].variables

\* static bool variable_in_scope(std::string variable_name, Scope *scope)
RECURSIVE variable_in_scope(_, _, _)
variable_in_scope(sc, variable_name, scope) ==
  IF scope = NULL THEN FALSE
  ELSE IF variable_name \in sc[scope].variables THEN TRUE
  ELSE variable_in_scope(sc, variable_name, sc[scope].parent_scope)

\* static bool typedef_name_in_scope(std::string type_name, Scope *scope)
RECURSIVE typedef_name_in_scope(_, _, _)
typedef_name_in_scope(sc, type_name, scope) ==
  IF scope = NULL THEN FALSE
  ELSE IF type_name \in sc[scope].typedef_names THEN TRUE
  ELSE typedef_name_in_scope(sc, type_name, sc[scope].parent_scope)

\* ------------------------------------------------- declaration specifiers

token_is_type_qualifier(token) ==
  token.type \in {"Const", "Restrict", "Volatile", "Atomic"}

token_is_storage_class_specifier(token) ==
  token.type \in {"Typedef", "Extern", "Static", "ThreadLocal", "Auto", "Register"}

token_is_alignment_specifier(token) == token.type = "AlignAs"

token_is_function_specifier(token) == token.type \in {"Inline", "NoReturn"}

token_is_type_specifier(sc, token, scope) ==
  IF token.type \in {"Void", "Char", "Short", "Int", "Long", "Float", "Double",
                     "Signed", "Unsigned", "Bool", "Complex", "Atomic",
                     "Struct", "Enum", "Union"}
  THEN TRUE
  ELSE typedef_name_in_scope(sc, token.string, scope)

token_is_declaration_specifier(sc, token, scope) ==
  \/ token_is_storage_class_specifier(token)
  \/ token_is_type_specifier(sc, token, scope)
  \/ token_is_type_qualifier(token)
  \/ token_is_function_specifier(token)
  \/ token_is_alignment_specifier(token)

\* ------------------------------------------------ specification: scopes

NoLexer == [tokens |-> <<Tok("Eof")>>, index |-> 1]
None == [fn |-> "none"]
\* parse_translation_unit has not been called.
NoTU == [called |-> FALSE]

\* The sets a scope may hold.
ScopeSets == SUBSET Names

\* Chains of d scopes: scope 1 is the global scope (parent nullptr), scope
\* i + 1 is a block nested in scope i.
ScopeChains(d) ==
  { [i \in 1..d |-> Scope(v[i], t[i], i - 1)] :
      v \in [1..d -> ScopeSets], t \in [1..d -> ScopeSets] }

\* Tokens handed to the classifiers.
ClassifiedTokens ==
  {Id(n) : n \in Names} \cup
  {Tok(t) : t \in {"Int", "Const", "Typedef", "Inline", "AlignAs", "Atomic", "Semicolon"}}

InitScope ==
  /\ lexer = NoLexer
  /\ \E d \in 1..MaxDepth : scopes \in ScopeChains(d)
  /\ pc = "call"
  /\ \E tk \in ClassifiedTokens, s \in 0..Len(scopes) : arg = [token |-> tk, scope |-> s]
  /\ ret = None
  /\ tu = NoTU

CallVariableInScope ==
  /\ pc = "call"
  /\ arg.token.type = "Identifier"
  /\ ret' = [fn |-> "variable_in_scope",
             value |-> variable_in_scope(scopes, arg.token.string, arg.scope)]
  /\ pc' = "return"
  /\ UNCHANGED <<lexer, scopes, arg, tu>>

CallTypedefNameInScope ==
  /\ pc = "call"
  /\ arg.token.type = "Identifier"
  /\ ret' = [fn |-> "typedef_name_in_scope",
             value |-> typedef_name_in_scope(scopes, arg.token.string, arg.scope)]
  /\ pc' = "return"
  /\ UNCHANGED <<lexer, scopes, arg, tu>>

CallTokenIsTypeSpecifier ==
  /\ pc = "call"
  /\ ret' = [fn |-> "token_is_type_specifier",
             value |-> token_is_type_specifier(scopes, arg.token, arg.scope)]
  /\ pc' = "return"
  /\ UNCHANGED <<lexer, scopes, arg, tu>>

CallTokenIsDeclarationSpecifier ==
  /\ pc = "call"
  /\ ret' = [fn |-> "token_is_declaration_specifier",
             value |-> token_is_declaration_specifier(scopes, arg.token, arg.scope)]
  /\ pc' = "return"
  /\ UNCHANGED <<lexer, scopes, arg, tu>>

NextScope ==
  \/ CallVariableInScope
  \/ CallTypedefNameInScope
  \/ CallTokenIsTypeSpecifier
  \/ CallTokenIsDeclarationSpecifier

SpecScope == InitScope /\ [][NextScope]_vars

\* The scopes reached from s through parent_scope, s included: the closure
\* of {s} under parent_scope.
RECURSIVE Closure(_)
Closure(S) ==
  LET S2 == S \cup ({scopes[a].parent_scope : a \in S} \ {NULL})
  IN IF S2 = S THEN S ELSE Closure(S2)

Ancestors(s) == IF s = NULL THEN {} ELSE Closure({s})

\* C9: for every name and scope chain, each lookup returns true exactly when
\* the name is in the corresponding set of the starting scope or of one of
\* its ancestors; the ordinary-identifier sets do not affect the typedef
\* lookup, nor the typedef sets the variable lookup.
C9_LookupWalksChain ==
  /\ (pc = "return" /\ ret.fn = "variable_in_scope") =>
       ret.value = (\E a \in Ancestors(arg.scope) : arg.token.string \in scopes[a].variables)
  /\ (pc = "return" /\ ret.fn = "typedef_name_in_scope") =>
       ret.value = (\E a \in Ancestors(arg.scope) : arg.token.string \in scopes[a].typedef_names)

\* A lookup that found the name in a proper ancestor only, while the other
\* set of the starting scope holds the name.
C9_Witness ==
  /\ pc = "return" /\ ret.fn = "variable_in_scope" /\ ret.value
  /\ arg.scope = 2
  /\ arg.token.string \notin scopes[2].variables
  /\ arg.token.string \in scopes[2].typedef_names
  /\ arg.token.string \notin scopes[1].typedef_names

\* C3: with typedef T in the outer scope and variable T in the inner scope,
\* the token T is not a type specifier from the inner scope and is one from
\* the outer scope.
Shadowed ==
  /\ Len(scopes) >= 2
  /\ arg.token = Id(<<"T">>)
  /\ <<"T">> \in scopes[1].typedef_names
  /\ <<"T">> \in scopes[2].variables
  /\ <<"T">> \notin scopes[2].typedef_names
  /\ <<"T">> \notin scopes[1].variables

C3_ShadowCorrect ==
  (pc = "return" /\ ret.fn = "token_is_type_specifier" /\ Shadowed) =>
     /\ arg.scope = 2 => ret.value = FALSE
     /\ arg.scope = 1 => ret.value = TRUE

\* token_is_declaration_specifier: the classifier whose result decides the
\* disjunction, the first one that returns true in the order they are
\* written: storage class || type specifier || type qualifier || function
\* specifier || alignment specifier.
FirstCategory(sc, token, scope) ==
  IF token_is_storage_class_specifier(token) THEN "storage-class"
  ELSE IF token_is_type_specifier(sc, token, scope) THEN "type-specifier"
  ELSE IF token_is_type_qualifier(token) THEN "type-qualifier"
  ELSE IF token_is_function_specifier(token) THEN "function-specifier"
  ELSE IF token_is_alignment_specifier(token) THEN "alignment-specifier"
  ELSE "none"

\* The categories whose classifier returns true for the token.
Categories(sc, token, scope) ==
  (IF token_is_storage_class_specifier(token) THEN {"storage-class"} ELSE {}) \cup
  (IF token_is_type_qualifier(token) THEN {"type-qualifier"} ELSE {}) \cup
  (IF token_is_type_specifier(sc, token, scope) THEN {"type-specifier"} ELSE {}) \cup
  (IF token_is_function_specifier(token) THEN {"function-specifier"} ELSE {}) \cup
  (IF token_is_alignment_specifier(token) THEN {"alignment-specifier"} ELSE {})

\* C16: a token falls in at most one of the five specifier categories (no
\* two classifiers return true for it), and the categories are tested in the
\* order storage class, type qualifier, type specifier, function specifier,
\* alignment specifier: the category that decides is the first of that order.
C16_OneCategoryInOrder ==
  (pc = "return" /\ ret.fn = "token_is_declaration_specifier") =>
    LET found == Categories(scopes, arg.token, arg.scope)
        order == <<"storage-class", "type-qualifier", "type-specifier",
                   "function-specifier", "alignment-specifier">>
        hits == {i \in 1..Len(order) : order[i] \in found}
    IN /\ Cardinality(found) <= 1
       /\ ret.value = (found # {})
       /\ found # {} =>
            FirstCategory(scopes, arg.token, arg.scope)
              = order[CHOOSE i \in hits : \A j \in hits : i <= j]

\* -------------------------------------------------------- numeric literals

\* Widths of the accumulators of parse_number, in bits (LP64).
IntBits == 32
LongBits == 64
LongLongBits == 64

\* An accumulator is a little-endian sequence of 16-bit limbs, so that a
\* 64-bit value never leaves the range of the checker's integers.
Limb == 2^16
Zero(bits) == [i \in 1..(bits \div 16) |-> 0]

RECURSIVE IndexIn(_, _)
\* Position of character c in the sequence cs, 0 when absent.
IndexIn(cs, c) ==
  IF cs = <<>> THEN 0
  ELSE IF cs[Len(cs)] = c THEN Len(cs)
  ELSE IndexIn(SubSeq(cs, 1, Len(cs) - 1), c)

Digits09 == <<"0", "1", "2", "3", "4", "5", "6", "7", "8", "9">>
LowerAF == <<"a", "b", "c", "d", "e", "f">>
UpperAF == <<"A", "B", "C", "D", "E", "F">>

\* The assertion of a digit function failed.
Invalid == -1

\* static int hex_char_to_int(char c)
hex_char_to_int(c) ==
  IF IndexIn(Digits09, c) > 0 THEN IndexIn(Digits09, c) - 1
  ELSE IF IndexIn(LowerAF, c) > 0 THEN IndexIn(LowerAF, c) - 1 + 10
  ELSE IF IndexIn(UpperAF, c) > 0 THEN IndexIn(UpperAF, c) - 1 + 10
  ELSE Invalid

\* static int decimal_to_int(char c)
decimal_to_int(c) ==
  IF IndexIn(Digits09, c) > 0 THEN IndexIn(Digits09, c) - 1 ELSE Invalid

\* static int octal_to_int(char c)
octal_to_int(c) ==
  IF IndexIn(SubSeq(Digits09, 1, 8), c) > 0 THEN IndexIn(Digits09, c) - 1 ELSE Invalid

\* static int binary_to_int(char c)
binary_to_int(c) ==
  IF IndexIn(SubSeq(Digits09, 1, 2), c) > 0 THEN IndexIn(Digits09, c) - 1 ELSE Invalid

\* char_to_int_function(c), the function pointer chosen with the base
char_to_int(fn, c) ==
  CASE fn = "hex_char_to_int" -> hex_char_to_int(c)
    [] fn = "octal_to_int" -> octal_to_int(c)
    [] fn = "binary_to_int" -> binary_to_int(c)
    [] OTHER -> decimal_to_int(c)

\* current_token->string[i] for a 0-based i; string[length()] is '\0'.
CharAt(str, i) == IF i < Len(str) THEN str[i + 1] ELSE "\\0"

\* The prefix detection of parse_number with the hexadecimal digits read in
\* base 10.
NumberBase_HexAsDecimal(str) ==
  IF CharAt(str, 0) = "0"
  THEN IF CharAt(str, 1) = "x"
       THEN [base |-> 10, index |-> 2, fn |-> "hex_char_to_int"]
       ELSE IF CharAt(str, 1) = "b"
       THEN [base |-> 2, index |-> 2, fn |-> "binary_to_int"]
       ELSE [base |-> 8, index |-> 1, fn |-> "octal_to_int"]
  ELSE [base |-> 10, index |-> 0, fn |-> "decimal_to_int"]

\* parse_number: base, index and char_to_int_function from the prefix
NumberBase(str) ==
  IF CharAt(str, 0) = "0"
  THEN IF CharAt(str, 1) = "x"
       THEN [base |-> 16, index |-> 2, fn |-> "hex_char_to_int"]
       ELSE IF CharAt(str, 1) = "b"
       THEN [base |-> 2, index |-> 2, fn |-> "binary_to_int"]
       ELSE [base |-> 8, index |-> 1, fn |-> "octal_to_int"]
  ELSE [base |-> 10, index |-> 0, fn |-> "decimal_to_int"]

RECURSIVE MulAdd(_, _, _)
\* limbs * base + carry, limb by limb: <<the limbs, the carry out>>
MulAdd(limbs, base, carry) ==
  IF limbs = <<>> THEN <<(<<>>), carry>>
  ELSE LET t == limbs[1] * base + carry
           rest == MulAdd(Tail(limbs), base, t \div Limb)
       IN <<(<<t % Limb>>) \o rest[1], rest[2]>>

\* value = value * base + digit in a signed type leaves its range
SignedOverflow(step) ==
  step[2] # 0 \/ step[1][Len(step[1])] >= Limb \div 2

RECURSIVE Accumulate(_, _, _, _, _, _)
\* for (; index < n; index++)
\*   value = value * base + char_to_int_function(current_token->string[index]);
\* The result: the value (wrapped to the accumulator's width), whether a
\* digit function asserted, and whether a signed accumulator overflowed on
\* the way (undefined behaviour).
Accumulate(value, str, index, nb, signed, ub) ==
  IF index >= Len(str) THEN [value |-> value, assert |-> FALSE, ub |-> ub]
  ELSE LET d == char_to_int(nb.fn, CharAt(str, index))
       IN IF d = Invalid THEN [value |-> value, assert |-> TRUE, ub |-> ub]
          ELSE LET step == MulAdd(value, nb.base, d)
               IN Accumulate(step[1], str, index + 1, nb, signed,
                             ub \/ (signed /\ SignedOverflow(step)))

\* The suffix token types parse_number names in its switch.
SuffixesLong == {"IntegerSuffixl", "IntegerSuffixL"}
SuffixesUnsigned == {"IntegerSuffixu", "IntegerSuffixU"}
SuffixesLongLong == {"IntegerSuffixll", "IntegerSuffixLL"}
SuffixesUnsignedLongLong ==
  {"IntegerSuffixull", "IntegerSuffixuLL", "IntegerSuffixllu", "IntegerSuffixLLu",
   "IntegerSuffixUll", "IntegerSuffixULL", "IntegerSuffixllU", "IntegerSuffixLLU"}
\* The token types of the suffixes ul and lu, which the switch does not name.
SuffixesUnsignedLong ==
  {"IntegerSuffixul", "IntegerSuffixuL", "IntegerSuffixUl", "IntegerSuffixUL",
   "IntegerSuffixlu", "IntegerSuffixlU", "IntegerSuffixLu", "IntegerSuffixLU"}

\* The case of the switch on the token after the number: the data type, the
\* field of data_as, and the accumulator's width and signedness.
NumberCase(type) ==
  IF type \in SuffixesLong
  THEN [data_type |-> "Long", field |-> "long_data", bits |-> LongBits, signed |-> TRUE]
  ELSE IF type \in SuffixesUnsigned
  THEN [data_type |-> "UnsignedInt", field |-> "unsigned_int_data", bits |-> IntBits,
        signed |-> FALSE]
  ELSE IF type \in SuffixesLongLong
  THEN [data_type |-> "LongLong", field |-> "long_long_data", bits |-> LongLongBits,
        signed |-> TRUE]
  ELSE IF type \in SuffixesUnsignedLongLong
  THEN [data_type |-> "UnsignedLongLong", field |-> "unsigned_long_long_data",
        bits |-> LongLongBits, signed |-> FALSE]
  ELSE [data_type |-> "Int", field |-> "int_data", bits |-> IntBits, signed |-> TRUE]

\* static ASTNode *parse_number(Lexer *lexer): the lexer after the call, the
\* node, and how the call ended: "ok", "assert" (an assertion failed and the
\* program aborted) or "ub" (a signed accumulator overflowed: the node holds
\* the wrapped value, and what a build does is open).
parse_number(lx) ==
  LET current_token == get_current_token(lx)
      nb == NumberBase(current_token.string)
      lx2 == get_next_token(lx)
      c == NumberCase(get_current_token(lx2).type)
      acc == Accumulate(Zero(c.bits), current_token.string, nb.index, nb, c.signed, FALSE)
  IN IF current_token.type # "Number" THEN [lexer |-> lx, status |-> "assert"]
     ELSE IF acc.assert THEN [lexer |-> lx2, status |-> "assert"]
     ELSE [lexer |-> lx2,
           status |-> IF acc.ub THEN "ub" ELSE "ok",
           node |-> [type |-> "NumericConstant", data_type |-> c.data_type,
                     data_as |-> [field |-> c.field, value |-> acc.value]]]

\* ----------------------------------------- specification: numeric literals

\* Longest digit string of a literal, after its prefix.
MaxDigits == 3

\* The digits drawn for each prefix.
LiteralDigits(prefix) ==
  CASE prefix = <<"0", "x">> -> {"0", "1", "9", "a", "F"}
    [] prefix = <<"0", "b">> -> {"0", "1"}
    [] prefix = <<"0">> -> {"0", "1", "7"}
    [] OTHER -> {"0", "1", "9"}

Prefixes == {<<"0", "x">>, <<"0", "b">>, <<"0">>, <<>>}

DigitStrings(prefix) ==
  UNION {[1..k -> LiteralDigits(prefix)] : k \in 0..MaxDigits}

\* The integer literals a lexer hands over: 0x and 0b are followed by a
\* digit, a decimal literal has a digit and does not start with 0.
Literals ==
  UNION { { [prefix |-> p, digits |-> d] :
              d \in { e \in DigitStrings(p) :
                        /\ p # <<"0">> => e # <<>>
                        /\ p = <<>> => e[1] # "0" } } :
          p \in Prefixes }

IntegerSuffixes ==
  SuffixesLong \cup SuffixesUnsigned \cup SuffixesLongLong \cup
  SuffixesUnsignedLongLong \cup SuffixesUnsignedLong

\* The token after the number.
AfterNumber == IntegerSuffixes \cup {"Semicolon", "Asterisk", "Eof"}

InitNumber ==
  /\ \E l \in Literals, t \in AfterNumber :
       /\ arg = [prefix |-> l.prefix, digits |-> l.digits, next |-> t]
       /\ lexer = [tokens |-> <<Num(l.prefix \o l.digits), Tok(t), Tok("Eof")>>,
                   index |-> 1]
  /\ scopes = <<Scope({}, {}, NULL)>>
  /\ pc = "call"
  /\ ret = None
  /\ tu = NoTU

\* What a build may do with the result of parse_number: a failed assertion
\* aborts; after a signed overflow the value is the wrapped one or the
\* program traps.
NumberOutcomes(r) ==
  IF r.status = "assert" THEN {[fn |-> "parse_number", status |-> "assert"]}
  ELSE IF r.status = "ub"
  THEN {[fn |-> "parse_number", status |-> "ok", node |-> r.node],
        [fn |-> "parse_number", status |-> "trap"]}
  ELSE {[fn |-> "parse_number", status |-> "ok", node |-> r.node]}

ParseNumber ==
  /\ pc = "call"
  /\ LET r == parse_number(lexer)
     IN /\ ret' \in NumberOutcomes(r)
        /\ lexer' = r.lexer
  /\ pc' = "return"
  /\ UNCHANGED <<scopes, arg, tu>>

NextNumber == ParseNumber

SpecNumber == InitNumber /\ [][NextNumber]_vars

Returned(fn) == pc = "return" /\ ret.fn = fn

\* The suffix table: the data type and the field of each suffix.
SuffixTable(type) ==
  CASE type \in SuffixesUnsigned -> <<"UnsignedInt", "unsigned_int_data">>
    [] type \in SuffixesLong -> <<"Long", "long_data">>
    [] type \in SuffixesUnsignedLong -> <<"UnsignedLong", "unsigned_long_data">>
    [] type \in SuffixesLongLong -> <<"LongLong", "long_long_data">>
    [] type \in SuffixesUnsignedLongLong ->
         <<"UnsignedLongLong", "unsigned_long_long_data">>
    [] OTHER -> <<"Int", "int_data">>

\* C4: parse_number tags every integer literal with the width and signedness
\* the suffix table gives for its suffix (none: int, u: unsigned int, l: long,
\* ul or lu: unsigned long, ll: long long, ull or llu: unsigned long long),
\* and stores the value in the field of that type.
C4_SuffixTable ==
  Returned("parse_number") =>
    /\ ret.status = "ok"
    /\ <<ret.node.data_type, ret.node.data_as.field>> = SuffixTable(arg.next)

\* The value of each digit character.
DigitValue ==
  ("0" :> 0) @@ ("1" :> 1) @@ ("2" :> 2) @@ ("3" :> 3) @@ ("4" :> 4) @@
  ("5" :> 5) @@ ("6" :> 6) @@ ("7" :> 7) @@ ("8" :> 8) @@ ("9" :> 9) @@
  ("a" :> 10) @@ ("b" :> 11) @@ ("c" :> 12) @@ ("d" :> 13) @@ ("e" :> 14) @@
  ("f" :> 15) @@ ("A" :> 10) @@ ("B" :> 11) @@ ("C" :> 12) @@ ("D" :> 13) @@
  ("E" :> 14) @@ ("F" :> 15)

\* The base a prefix announces.
PrefixBase(prefix) ==
  CASE prefix = <<"0", "x">> -> 16
    [] prefix = <<"0", "b">> -> 2
    [] prefix = <<"0">> -> 8
    [] OTHER -> 10

RECURSIVE ValueIn(_, _)
\* The number a digit string denotes in a base.
ValueIn(digits, base) ==
  IF digits = <<>> THEN 0
  ELSE ValueIn(SubSeq(digits, 1, Len(digits) - 1), base) * base
       + DigitValue[digits[Len(digits)]]

\* The accumulator of the given width that holds v, for 0 <= v < 2^31.
AsLimbs(v, bits) ==
  [i \in 1..(bits \div 16) |-> IF i = 1 THEN v % Limb ELSE IF i = 2 THEN v \div Limb ELSE 0]

\* C8: for a literal whose value fits its type, parse_number reads the base off
\* the prefix (0x: 16, 0b: 2, another leading 0: 8, otherwise 10), skips the
\* prefix and stores the value of the remaining digits in that base.
C8_BaseAndValue ==
  Returned("parse_number") =>
    /\ ret.status = "ok"
    /\ ret.node.data_as.value
         = AsLimbs(ValueIn(arg.digits, PrefixBase(arg.prefix)),
                   Len(ret.node.data_as.value) * 16)

\* The literals of the claim were parsed: 0x10, 0b101, 017 and 0.
C8_Witness ==
  /\ Returned("parse_number")
  /\ <<arg.prefix, arg.digits>> = <<(<<"0", "x">>), (<<"1", "0">>)>>
  /\ ret.node.data_as.value[1] = 16

C8_WitnessOctal ==
  /\ Returned("parse_number")
  /\ <<arg.prefix, arg.digits>> = <<(<<"0">>), (<<"1", "7">>)>>
  /\ ret.node.data_as.value[1] = 15

\* C18: after parse_number returns, the current token is the first token after
\* the whole literal: a suffix token, when there is one, has been consumed,
\* and without a suffix the token right after the number is the current one
\* (not skipped).
C18_CurrentTokenAfterLiteral ==
  (Returned("parse_number") /\ ret.status = "ok") =>
    IF arg.next \in IntegerSuffixes
    THEN lexer.index = 3 /\ get_current_token(lexer) = Tok("Eof")
    ELSE lexer.index = 2 /\ get_current_token(lexer) = Tok(arg.next)

\* ------------------------------- specification: literals that leave a type

\* Longest run of one repeated digit that ends a long literal.
MaxFill == 16

\* Long literals: the prefix, a leading digit, then a run of one digit,
\* enough to leave the range of a 32-bit and of a 64-bit accumulator.
LongLiterals ==
  UNION { { [prefix |-> p, digits |-> h \o [i \in 1..k |-> d]] :
              h \in { e \in DigitStrings(p) : Len(e) = 1 /\ (p = <<>> => e[1] # "0") },
              d \in LiteralDigits(p), k \in 0..MaxFill } :
          p \in Prefixes }

InitOverflow ==
  /\ \E l \in LongLiterals, t \in AfterNumber :
       /\ arg = [prefix |-> l.prefix, digits |-> l.digits, next |-> t]
       /\ lexer = [tokens |-> <<Num(l.prefix \o l.digits), Tok(t), Tok("Eof")>>,
                   index |-> 1]
  /\ scopes = <<Scope({}, {}, NULL)>>
  /\ pc = "call"
  /\ ret = None
  /\ tu = NoTU

SpecOverflow == InitOverflow /\ [][NextNumber]_vars

RECURSIVE Exact(_, _, _)
\* The number a digit string denotes in a base, in as many limbs as given:
\* no step of it is reduced.
Exact(limbs, digits, base) ==
  IF digits = <<>> THEN limbs
  ELSE Exact(MulAdd(limbs, base, DigitValue[Head(digits)])[1], Tail(digits), base)

\* C17: when the digits denote a value outside the range of the type the
\* suffix chooses, parse_number stores the value reduced modulo 2^w in an
\* unsigned destination of width w, and reports an error, storing no value,
\* for a signed destination.
C17_OverflowPolicy ==
  (Returned("parse_number") /\ arg.next \notin SuffixesUnsignedLong) =>
    LET c == NumberCase(arg.next)
        n == c.bits \div 16
        exact == Exact([i \in 1..(n + Len(arg.digits)) |-> 0], arg.digits,
                       PrefixBase(arg.prefix))
        outside == \/ \E i \in (n + 1)..Len(exact) : exact[i] # 0
                   \/ c.signed /\ exact[n] >= Limb \div 2
    IN outside =>
         IF c.signed
         THEN ret.status = "error" /\ "node" \notin DOMAIN ret
         ELSE /\ ret.status = "ok"
              /\ ret.node.data_as.value = SubSeq(exact, 1, n)

\* ------------------------------------------------------------ expressions

\* expect_and_get_next_token(lexer, type, message): the current token must be
\* of the type; then advance.
expect_and_get_next_token(lx, type) ==
  IF get_current_token(lx).type = type
  THEN [ok |-> TRUE, lexer |-> get_next_token(lx)]
  ELSE [ok |-> FALSE, lexer |-> lx]

\* error_token(lexer, message): parsing stops with the diagnostic.
error_token(lx, message) == [lexer |-> lx, status |-> "error", diag |-> message]

\* static ASTNode *parse_primary_expression(Lexer *lexer, Scope *scope):
\* advance, then an Identifier falls through to the Number case, and any
\* other token asserts.
parse_primary_expression(lx) ==
  LET lx1 == get_next_token(lx)
  IN IF get_current_token(lx1).type \in {"Identifier", "Number"}
     THEN parse_number(lx1)
     ELSE [lexer |-> lx1, status |-> "assert"]

\* An operand as the grammar of the expression levels describes it: an
\* identifier or a constant at the current token, and the current token is
\* the one after it on return.
parse_operand(lx) ==
  LET t == get_current_token(lx)
  IN IF t.type \in {"Identifier", "Number"}
     THEN [lexer |-> get_next_token(lx), status |-> "ok",
           node |-> [type |-> t.type, string |-> t.string]]
     ELSE error_token(lx, "UnexpectedToken")

\* ASTNode *parse_cast_expression(Lexer *lexer) is declared only. how names
\* what stands behind it: "primary", the chain cast / unary / postfix /
\* primary ending in parse_primary_expression, or "operand", the operand at
\* the current token.
parse_cast_expression(how, lx) ==
  IF how = "primary" THEN parse_primary_expression(lx) ELSE parse_operand(lx)

\* ASTNode *new_binary_expression_node(ASTNodeType type, ASTNode *lhs, ASTNode *rhs)
new_binary_expression_node(type, lhs, rhs) == [type |-> type, lhs |-> lhs, rhs |-> rhs]

\* ASTNode *parse_multiplicative_expression(Lexer *lexer)
parse_multiplicative_expression(how, lx) ==
  LET cast_expr == parse_cast_expression(how, lx)
  IN IF cast_expr.status # "ok" THEN cast_expr
     ELSE LET lx2 == get_next_token(cast_expr.lexer)
          IN IF get_current_token(lx2).type = "Asterisk"
             THEN LET rhs == parse_cast_expression(how, lx2)
                  IN IF rhs.status # "ok" THEN rhs
                     ELSE [lexer |-> rhs.lexer, status |-> "ok",
                           node |-> new_binary_expression_node(
                                      "Multiplication", cast_expr.node, rhs.node)]
             ELSE [lexer |-> lx2, status |-> "ok", node |-> cast_expr.node]

\* ------------------------------------------------ specification: expressions

\* Most operators in an expression drawn.
MaxOps == 2

ExprOperands == {Id(<<"a">>), Id(<<"b">>), Num(<<"1">>), Num(<<"2">>)}
ExprOperators == {"Asterisk", "ForwardSlash", "Modulo", "Plus"}
MultiplicativeOperators == {"Asterisk", "ForwardSlash", "Modulo"}

\* operand (op operand)* ; as tokens
ExprTokens(operands, ops) ==
  [i \in 1..(2 * Len(operands) - 1) |->
     IF i % 2 = 1 THEN operands[(i + 1) \div 2] ELSE Tok(ops[i \div 2])]
  \o <<Tok("Semicolon"), Tok("Eof")>>

\* A call starts with the first token current ("operand") or, where every
\* level advances before it looks, with the lexer before it ("primary").
\* Index 0 is the lexer new_lexer returns: no token has been read.
InitExpr ==
  /\ \E k \in 0..MaxOps :
       \E operands \in [1..(k + 1) -> ExprOperands], ops \in [1..k -> ExprOperators],
          how \in {"operand", "primary"} :
         /\ arg = [operands |-> operands, ops |-> ops, how |-> how]
         /\ lexer = [tokens |-> ExprTokens(operands, ops),
                     index |-> IF how = "primary" THEN 0 ELSE 1]
  /\ scopes = <<Scope({}, {}, NULL)>>
  /\ pc = "call"
  /\ ret = None
  /\ tu = NoTU

\* The outcome of a call as the value of ret: undefined behaviour inside the
\* call leaves the outcome open.
Outcomes(fn, r) ==
  IF r.status = "ub"
  THEN {[fn |-> fn, status |-> "ok", node |-> r.node], [fn |-> fn, status |-> "trap"]}
  ELSE {[x \in (DOMAIN r \ {"lexer"}) \cup {"fn"} |-> IF x = "fn" THEN fn ELSE r[x]]}

ParseMultiplicativeExpression ==
  /\ pc = "call"
  /\ LET r == parse_multiplicative_expression(arg.how, lexer)
     IN /\ ret' \in Outcomes("parse_multiplicative_expression", r)
        /\ lexer' = r.lexer
  /\ pc' = "return"
  /\ UNCHANGED <<scopes, arg, tu>>

NextExpr == ParseMultiplicativeExpression

SpecExpr == InitExpr /\ [][NextExpr]_vars

\* The node of an operand token standing alone.
Leaf(how, tok) ==
  parse_cast_expression(how, [tokens |-> <<tok, tok, Tok("Eof")>>,
                              index |-> IF how = "primary" THEN 0 ELSE 1]).node

BinaryNodeType(op) ==
  CASE op = "Asterisk" -> "Multiplication"
    [] op = "ForwardSlash" -> "Division"
    [] OTHER -> "Modulo"

RECURSIVE LeftNested(_, _, _)
\* The left-nested tree of operand (op operand)*: the last operator is the
\* root, its left child the tree of what stands before it.
LeftNested(how, operands, ops) ==
  IF ops = <<>> THEN Leaf(how, operands[1])
  ELSE [type |-> BinaryNodeType(ops[Len(ops)]),
        lhs |-> LeftNested(how, SubSeq(operands, 1, Len(operands) - 1),
                           SubSeq(ops, 1, Len(ops) - 1)),
        rhs |-> Leaf(how, operands[Len(operands)])]

\* C10: for operand (op operand)* with every op among * / %,
\* parse_multiplicative_expression returns the left-nested tree with one
\* binary node per operator, in input order, dropping nothing; stated for
\* the claim's own case x * y / z: the root is the division, its left child
\* the multiplication of x and y, its right child z.
C10_LeftNestedTree ==
  (Returned("parse_multiplicative_expression")
     /\ arg.ops = <<"Asterisk", "ForwardSlash">>) =>
    /\ ret.status = "ok"
    /\ ret.node = LeftNested(arg.how, arg.operands, arg.ops)

\* C11: when the token after a multiplicative-level operand is none of
\* * / %, parse_multiplicative_expression returns the operand and has not
\* consumed that token: it is the current token when the call returns.
C11_NonMatchingNotConsumed ==
  (/\ Returned("parse_multiplicative_expression")
   /\ ret.status = "ok"
   /\ lexer.tokens[2].type \notin MultiplicativeOperators) =>
    /\ ret.node = Leaf(arg.how, arg.operands[1])
    /\ get_current_token(lexer) = lexer.tokens[2]
    /\ lexer.index = 2

\* -------------------------------------------------------- jump statements

\* ASTNode *new_ast_node(ASTNodeType type): data_type is set, the other
\* fields are what malloc left; a field nobody set is absent from the record.
new_ast_node(type) == [type |-> type, data_type |-> "Void"]

\* parse_expression(lexer, scope) is declared only: an expression at the
\* current token, here a single operand.
parse_expression(lx) == parse_operand(lx)

\* The tail shared by the cases of parse_jump_statement:
\*   expect_and_get_next_token(lexer, TokenType::Semicolon, "Expected semicolon ...")
JumpSemicolon(lx, ast_node) ==
  LET e == expect_and_get_next_token(lx, "Semicolon")
  IN IF e.ok THEN [lexer |-> e.lexer, status |-> "ok", node |-> ast_node]
     ELSE error_token(lx, "Expected semicolon after jump statement")

\* case TokenType::Return of parse_jump_statement, and the cases it falls
\* through to.
JumpReturn(lx, ast_node) ==
  LET lx1 == get_next_token(lx)
  IN IF get_current_token(lx1).type # "Semicolon"
     THEN LET return_value_node == parse_expression(lx1)
          IN IF return_value_node.status # "ok" THEN return_value_node
             ELSE JumpSemicolon(return_value_node.lexer,
                                [x \in {"type", "data_type", "rhs"} |->
                                   IF x = "rhs" THEN return_value_node.node
                                   ELSE ast_node[x]])
     ELSE JumpSemicolon(lx1, ast_node)

\* ASTNode *parse_jump_statement(Lexer *lexer, Scope *scope). The
\* get_next_token written between the switch and its first case label is
\* never executed; case GoTo reads the current token, the goto itself, as
\* the identifier, and falls through to case Return.
parse_jump_statement(lx) ==
  LET ast_node == new_ast_node("Void")
      type == get_current_token(lx).type
  IN CASE type = "GoTo" ->
            IF get_current_token(lx).type # "Identifier"
            THEN error_token(lx, "Expected identifier after goto")
            ELSE JumpReturn(lx, ast_node)
       [] type = "Return" -> JumpReturn(lx, ast_node)
       [] type \in {"Continue", "Break"} -> JumpSemicolon(lx, ast_node)
       [] OTHER -> [lexer |-> lx, status |-> "assert"]

\* -------------------------------------------- specification: jump statements

\* Most tokens drawn after the keyword of a jump statement.
MaxTail == 3

JumpKeywords == {"GoTo", "Continue", "Break", "Return"}
TailTokens == {Id(<<"L">>), Num(<<"5">>), Tok("Semicolon"), Tok("RBrace")}

InitJump ==
  /\ \E kw \in JumpKeywords, k \in 0..MaxTail :
       \E tail \in [1..k -> TailTokens] :
         /\ arg = [keyword |-> kw, tail |-> tail]
         /\ lexer = [tokens |-> <<Tok(kw)>> \o tail \o <<Tok("Eof")>>, index |-> 1]
  /\ scopes = <<Scope({}, {}, NULL)>>
  /\ pc = "call"
  /\ ret = None
  /\ tu = NoTU

ParseJumpStatement ==
  /\ pc = "call"
  /\ LET r == parse_jump_statement(lexer)
     IN /\ ret' \in Outcomes("parse_jump_statement", r)
        /\ lexer' = r.lexer
  /\ pc' = "return"
  /\ UNCHANGED <<scopes, arg, tu>>

NextJump == ParseJumpStatement

SpecJump == InitJump /\ [][NextJump]_vars

\* C5: a jump statement that begins with goto consumes goto, fails with the
\* expected-identifier diagnostic exactly when the token after goto is not an
\* identifier, and accepts goto identifier ; consuming both tokens.
C5_GotoIdentifier ==
  (Returned("parse_jump_statement") /\ arg.keyword = "GoTo") =>
    LET after == lexer.tokens[2]
    IN /\ (ret.status = "error" /\ ret.diag = "Expected identifier after goto")
            <=> after.type # "Identifier"
       /\ (after.type = "Identifier" /\ lexer.tokens[3].type = "Semicolon") =>
            (ret.status = "ok" /\ lexer.index = 4)

\* C14: continue ; break ; and return ; succeed, attach no expression and
\* leave the token after the semicolon current; return e ; attaches the
\* expression e; every form fails with the expected-semicolon diagnostic when
\* the token where ; is required is another one.
C14_JumpForms ==
  (Returned("parse_jump_statement") /\ arg.keyword \in {"Continue", "Break", "Return"}) =>
    LET after == lexer.tokens[2]
        bare == /\ ret.status = "ok"
                /\ "rhs" \notin DOMAIN ret.node
                /\ lexer.index = 3
        missing == /\ ret.status = "error"
                   /\ ret.diag = "Expected semicolon after jump statement"
    IN /\ after.type = "Semicolon" => bare
       /\ (arg.keyword \in {"Continue", "Break"} /\ after.type # "Semicolon") => missing
       /\ (arg.keyword = "Return" /\ after.type \in {"Identifier", "Number"}) =>
            IF lexer.tokens[3].type = "Semicolon"
            THEN /\ ret.status = "ok"
                 /\ Field(ret.node, "rhs") = [type |-> after.type, string |-> after.string]
                 /\ lexer.index = 4
            ELSE missing

\* ------------------------------------------------------------ declarators

\* static void parse_type_qualifier_list(Lexer *lexer)
RECURSIVE parse_type_qualifier_list(_)
parse_type_qualifier_list(lx) ==
  IF token_is_type_qualifier(get_current_token(lx))
  THEN parse_type_qualifier_list(get_next_token(lx))
  ELSE lx

\* void parse_pointer(Lexer *lexer)
RECURSIVE parse_pointer(_)
parse_pointer(lx) ==
  LET e == expect_and_get_next_token(lx, "Asterisk")
  IN IF ~e.ok THEN error_token(lx, "Parsing pointer, expected *")
     ELSE LET token_after_asterisk == get_current_token(e.lexer)
          IN IF token_after_asterisk.type = "Asterisk" THEN parse_pointer(e.lexer)
             ELSE IF token_is_type_qualifier(token_after_asterisk)
             THEN [lexer |-> parse_type_qualifier_list(e.lexer), status |-> "ok"]
             ELSE [lexer |-> e.lexer, status |-> "ok"]

\* static Object *new_object(): the fields are what malloc left.
new_object == [type |-> [kind |-> "uninitialized"]]

\* The identifier branch of parse_direct_declarator: a new object named
\* after the identifier, then the switch on the token after it.
DirectDeclaratorIdentifier(lx, current_token) ==
  LET object == SetField(new_object, "name", current_token.string)
      lx1 == get_next_token(lx)
      t1 == get_current_token(lx1).type
      lx2 == get_next_token(lx1)
      t2 == get_current_token(lx2).type
  IN IF t1 \in {"Semicolon", "Comma"}
     THEN [lexer |-> lx1, status |-> "ok", returned |-> TRUE, object |-> object]
     ELSE IF t1 \in {"LBracket", "LParen"}
     THEN IF t2 \in {"Identifier", "RParen"}
          THEN [lexer |-> lx2, status |-> "ok", returned |-> TRUE, object |-> object]
          ELSE error_token(lx2, "FIXME: default case in parse_direct_declarator")
     ELSE error_token(lx1, "FIXME: default case in parse_direct_declarator")

\* Object *parse_declarator(Lexer *lexer) and
\* Object *parse_direct_declarator(Lexer *lexer, Object *object = nullptr),
\* which call each other. returned tells whether control reached a return
\* statement: parse_declarator has none, and parse_direct_declarator has
\* none outside its identifier branch, so the value of such a call is
\* indeterminate; object is then what the last callee returned, if anything.
RECURSIVE parse_declarator(_)
RECURSIVE parse_direct_declarator(_)

parse_declarator(lx) ==
  Then(IF get_current_token(lx).type = "Asterisk"
       THEN parse_pointer(get_next_token(lx))
       ELSE [lexer |-> lx, status |-> "ok"],
       LAMBDA p : Then(parse_direct_declarator(p.lexer),
                       LAMBDA d : [d EXCEPT !.returned = FALSE]))

\* The token after the ) of a parenthesized declarator: an identifier enters
\* the identifier branch, anything else falls off the end of the function.
AfterParenthesized(lx) ==
  IF get_current_token(lx).type = "Identifier"
  THEN DirectDeclaratorIdentifier(lx, get_current_token(lx))
  ELSE [lexer |-> lx, status |-> "ok", returned |-> FALSE]

parse_direct_declarator(lx) ==
  IF get_current_token(lx).type = "LParen"
  THEN Then(parse_declarator(get_next_token(lx)), LAMBDA inner :
         Bind(expect_and_get_next_token(inner.lexer, "RParen"), LAMBDA e :
           IF ~e.ok
           THEN error_token(inner.lexer, "parse_direct_declarator expected RParen")
           ELSE AfterParenthesized(e.lexer)))
  ELSE AfterParenthesized(lx)

\* ------------------------------------------------ specification: declarators

\* Most tokens of a pointer prefix drawn.
MaxPrefix == 3

PrefixTokens == {Tok("Asterisk"), Tok("Const"), Tok("Volatile")}
DeclaratorCores ==
  { <<Id(<<"a">>)>>,
    <<Tok("LParen"), Id(<<"a">>), Tok("RParen")>>,
    <<Tok("LParen"), Tok("Asterisk"), Id(<<"a">>), Tok("RParen")>>,
    <<Tok("LParen"), Tok("Asterisk"), Tok("Asterisk"), Id(<<"a">>), Tok("RParen")>>,
    <<>> }
DeclaratorSuffixes ==
  { <<>>,
    <<Tok("LBracket"), Num(<<"3">>), Tok("RBracket")>>,
    <<Tok("LBracket"), Tok("RBracket")>>,
    <<Tok("LParen"), Tok("RParen")>> }
DeclaratorEnds == {Tok("Semicolon"), Tok("Comma"), Tok("Equals")}

InitDecl ==
  /\ \E k \in 0..MaxPrefix :
       \E prefix \in [1..k -> PrefixTokens], core \in DeclaratorCores,
          suffix \in DeclaratorSuffixes, end \in DeclaratorEnds :
         /\ arg = [prefix |-> prefix, core |-> core, suffix |-> suffix, end |-> end]
         /\ lexer = [tokens |-> prefix \o core \o suffix \o <<end, Tok("Eof")>>,
                     index |-> 1]
  /\ scopes = <<Scope({}, {}, NULL)>>
  /\ pc = "call"
  /\ ret = None
  /\ tu = NoTU

\* What the caller of parse_declarator receives: the function has no return
\* statement, so on success the value is indeterminate: the object its
\* callee returned last (left in the return register), or anything else.
DeclaratorOutcomes(r) ==
  IF r.status # "ok"
  THEN {[fn |-> "parse_declarator", status |-> r.status, diag |-> r.diag]}
  ELSE {[fn |-> "parse_declarator", status |-> "ok", object |-> o] :
          o \in {[kind |-> "indeterminate"]} \cup
                (IF "object" \in DOMAIN r THEN {r.object} ELSE {})}

ParseDeclarator ==
  /\ pc = "call"
  /\ LET r == parse_declarator(lexer)
     IN /\ ret' \in DeclaratorOutcomes(r)
        /\ lexer' = r.lexer
  /\ pc' = "return"
  /\ UNCHANGED <<scopes, arg, tu>>

NextDecl == ParseDeclarator

SpecDecl == InitDecl /\ [][NextDecl]_vars

\* Types, as the type interning boundary builds them.
IntType == [kind |-> "Int"]
PointerTo(t) == [kind |-> "Pointer", to |-> t]
ArrayOf(t, n) == [kind |-> "Array", of |-> t, size |-> n]

\* C1: suffixes are applied to the base type before the leading pointer
\* wraps: *a[3] against int is the entity a of type array of 3 pointers to
\* int, and (*a)[3] is the entity a of type pointer to array of 3 int.
C1_SuffixBeforePointer ==
  Returned("parse_declarator") =>
    /\ lexer.tokens = <<Tok("Asterisk"), Id(<<"a">>), Tok("LBracket"), Num(<<"3">>),
                        Tok("RBracket"), Tok("Semicolon"), Tok("Eof")>>
         => /\ ret.status = "ok"
            /\ ret.object = [name |-> <<"a">>, type |-> ArrayOf(PointerTo(IntType), 3)]
    /\ lexer.tokens = <<Tok("LParen"), Tok("Asterisk"), Id(<<"a">>), Tok("RParen"),
                        Tok("LBracket"), Num(<<"3">>), Tok("RBracket"),
                        Tok("Semicolon"), Tok("Eof")>>
         => /\ ret.status = "ok"
            /\ ret.object = [name |-> <<"a">>, type |-> PointerTo(ArrayOf(IntType, 3))]

RECURSIVE PointerPrefixForm(_)
\* A pointer prefix: ( * followed by type qualifiers ) any number of times.
PointerPrefixForm(prefix) ==
  \/ prefix = <<>>
  \/ /\ prefix[1].type = "Asterisk"
     /\ \E k \in 1..Len(prefix) :
          /\ \A i \in 2..k : token_is_type_qualifier(prefix[i])
          /\ PointerPrefixForm(SubSeq(prefix, k + 1, Len(prefix)))

\* C15: for a pointer prefix followed by a direct declarator, parse_declarator
\* consumes the prefix without error and starts the direct declarator at the
\* first token after it; stated for the direct declarator a identifier that
\* ends at ; or , so that the call returns with that token current.
C15_PointerPrefixAccepted ==
  (/\ Returned("parse_declarator")
   /\ PointerPrefixForm(arg.prefix)
   /\ arg.core = <<Id(<<"a">>)>>
   /\ arg.suffix = <<>>
   /\ arg.end.type \in {"Semicolon", "Comma"}) =>
    /\ ret.status = "ok"
    /\ lexer.index = Len(arg.prefix) + 2

\* --------------------------------------------- translation unit: callees

\* Declaration parse_declaration_specifiers(Lexer *lexer, Scope *scope): the
\* specifier tokens folded (update_declaration) and the lexer after them.
RECURSIVE parse_declaration_specifiers(_, _, _)
parse_declaration_specifiers(lx, scope, declaration) ==
  IF token_is_declaration_specifier(scopes, get_current_token(lx), scope)
  THEN parse_declaration_specifiers(get_next_token(lx), scope,
                                    Append(declaration, get_current_token(lx).type))
  ELSE [lexer |-> lx, declaration |-> declaration]

\* Type const* declaration_to_fundamental_type(DeclarationSpecifierFlags*):
\* the fundamental type the specifiers name (fundamental_type_from_declaration
\* and get_fundamental_type_pointer are declared only).
declaration_to_fundamental_type(declaration) ==
  LET named == {i \in 1..Len(declaration) :
                  declaration[i] \in {"Void", "Char", "Short", "Int", "Long", "Float",
                                      "Double", "Bool"}}
  IN IF named = {} THEN [kind |-> "Int"]
     ELSE [kind |-> declaration[CHOOSE i \in named : \A j \in named : j <= i]]

\* The type interning boundary.
FunctionOf(t, params) == [kind |-> "Function", returns |-> t, params |-> params]
Hole == [kind |-> "Hole"]

RECURSIVE Substitute(_, _)
\* The type t with its hole replaced by x.
Substitute(t, x) ==
  CASE t.kind = "Hole" -> x
    [] t.kind = "Pointer" -> PointerTo(Substitute(t.to, x))
    [] t.kind = "Array" -> ArrayOf(Substitute(t.of, x), t.size)
    [] t.kind = "Function" -> FunctionOf(Substitute(t.returns, x), t.params)
    [] OTHER -> t

RECURSIVE PointerPrefix(_, _)
\* Step 1 of the declarator algorithm: the leading * tokens, each with its
\* qualifiers, wrapped around the base type.
PointerPrefix(lx, base) ==
  IF get_current_token(lx).type = "Asterisk"
  THEN PointerPrefix(parse_type_qualifier_list(get_next_token(lx)), PointerTo(base))
  ELSE [lexer |-> lx, type |-> base]

\* Object *parse_declarator(Lexer*, Type const*, Scope*), the declarator
\* parser parse_translation_unit calls, is declared only: the algorithm of
\* the declarator grammar. A suffix wraps the type of the suffixes after it;
\* a parenthesized declarator is parsed against a hole that the suffixed
\* type fills.
RECURSIVE Declarator(_, _)
RECURSIVE DirectDeclarator(_, _)
RECURSIVE DeclaratorSuffix(_, _)
RECURSIVE ParameterList(_, _)

Declarator(lx, base) ==
  Bind(PointerPrefix(lx, base), LAMBDA p : DirectDeclarator(p.lexer, p.type))

\* The object a direct declarator declares: the name, and the type the
\* suffixes after it make.
Declared(name, type, suffix) ==
  [lexer |-> suffix.lexer, status |-> "ok", object |-> [name |-> name, type |-> type]]

\* ( declarator ) and the suffixes after it
ParenthesizedDeclarator(lx, base) ==
  Then(Declarator(get_next_token(lx), Hole), LAMBDA inner :
    Bind(expect_and_get_next_token(inner.lexer, "RParen"), LAMBDA e :
      IF ~e.ok THEN error_token(inner.lexer, "UnbalancedParenthesis")
      ELSE Then(DeclaratorSuffix(e.lexer, base), LAMBDA suffix :
             Declared(inner.object.name,
                      Substitute(inner.object.type, suffix.type), suffix))))

DirectDeclarator(lx, base) ==
  Bind(get_current_token(lx), LAMBDA t :
    IF t.type = "LParen" THEN ParenthesizedDeclarator(lx, base)
    ELSE IF t.type = "Identifier"
    THEN Then(DeclaratorSuffix(get_next_token(lx), base), LAMBDA suffix :
           Declared(t.string, suffix.type, suffix))
    ELSE error_token(lx, "ExpectedIdentifier"))

\* [ size ] and the suffixes after it; lx is at the token after the [
ArraySuffix(lx, base) ==
  Bind(get_current_token(lx), LAMBDA size :
    Bind(IF size.type = "Number" THEN get_next_token(lx) ELSE lx, LAMBDA lx2 :
      Bind(expect_and_get_next_token(lx2, "RBracket"), LAMBDA e :
        IF ~e.ok THEN error_token(lx2, "UnexpectedToken")
        ELSE Then(DeclaratorSuffix(e.lexer, base), LAMBDA rest :
               [rest EXCEPT !.type =
                  ArrayOf(rest.type,
                          IF size.type = "Number" THEN size.string ELSE <<>>)]))))

DeclaratorSuffix(lx, base) ==
  Bind(get_current_token(lx).type, LAMBDA t :
    IF t = "LBracket" THEN ArraySuffix(get_next_token(lx), base)
    ELSE IF t = "LParen"
    THEN Then(ParameterList(get_next_token(lx), <<>>), LAMBDA params :
           Then(DeclaratorSuffix(params.lexer, base), LAMBDA rest :
             [rest EXCEPT !.type = FunctionOf(rest.type, params.params)]))
    ELSE [lexer |-> lx, status |-> "ok", type |-> base])

\* The declarator of a parameter, against the type its specifiers name.
ParameterDeclarator(lx) ==
  Bind(parse_declaration_specifiers(lx, 1, <<>>), LAMBDA specifiers :
    Declarator(specifiers.lexer,
               declaration_to_fundamental_type(specifiers.declaration)))

\* The parameters after the ( of a function suffix, up to and with its ).
ParameterList(lx, params) ==
  Bind(get_current_token(lx), LAMBDA t :
    IF t.type = "RParen" /\ params = <<>>
    THEN [lexer |-> get_next_token(lx), status |-> "ok", params |-> params]
    ELSE IF ~token_is_declaration_specifier(scopes, t, 1)
    THEN error_token(lx, "ExpectedDeclaration")
    ELSE Then(ParameterDeclarator(lx), LAMBDA d :
           Bind(get_current_token(d.lexer).type, LAMBDA after :
             IF after = "Comma"
             THEN ParameterList(get_next_token(d.lexer), Append(params, d.object.type))
             ELSE IF after = "RParen"
             THEN [lexer |-> get_next_token(d.lexer), status |-> "ok",
                   params |-> Append(params, d.object.type)]
             ELSE error_token(d.lexer, "UnbalancedParenthesis"))))

\* parse_rest_of_declaration(lexer, scope, ast_node) is declared only: the
\* rest of the init-declarator list, each declarator optionally initialized,
\* separated by commas and ended by ; which is consumed.
RECURSIVE parse_rest_of_declaration(_, _)
parse_rest_of_declaration(lx, base) ==
  Bind(get_current_token(lx).type, LAMBDA t :
    IF t = "Semicolon" THEN [lexer |-> get_next_token(lx), status |-> "ok"]
    ELSE IF t = "Equals"
    THEN Then(parse_expression(get_next_token(lx)), LAMBDA init :
           parse_rest_of_declaration(init.lexer, base))
    ELSE IF t = "Comma"
    THEN Then(Declarator(get_next_token(lx), base), LAMBDA d :
           parse_rest_of_declaration(d.lexer, base))
    ELSE error_token(lx, "UnexpectedToken"))

\* ------------------------------------------------------- translation unit

\* &declaration_anchor / &ast_node_anchor: the anchor on the stack of the
\* running function.
ANCHOR == -1

\* Most AST nodes the heap records.
MaxNodes == 8

\* static ExternalDeclaration* new_external_declaration(type, head_node)
new_external_declaration(type, head_node) ==
  [next |-> NULL, root_ast_node |-> head_node, type |-> type]

\* The append of parse_translation_unit without the step of
\* previous_declaration to the new entry.
AppendExternal_NoAdvance(t, declaration_type, ast_node) ==
  LET current_declaration == Len(t.ext) + 1
      ext1 == Append(t.ext, new_external_declaration(declaration_type, ast_node))
  IN IF t.previous_declaration = ANCHOR
     THEN [t EXCEPT !.ext = ext1, !.anchor_next = current_declaration]
     ELSE [t EXCEPT !.ext = [ext1 EXCEPT ![t.previous_declaration].next =
                                           current_declaration]]

\* parse_translation_unit:
\*   current_declaration = new_external_declaration(declaration_type, ast_node);
\*   previous_declaration->next = current_declaration;
\*   previous_declaration = current_declaration;
AppendExternal(t, declaration_type, ast_node) ==
  LET current_declaration == Len(t.ext) + 1
      ext1 == Append(t.ext, new_external_declaration(declaration_type, ast_node))
  IN IF t.previous_declaration = ANCHOR
     THEN [t EXCEPT !.ext = ext1, !.anchor_next = current_declaration,
                    !.previous_declaration = current_declaration]
     ELSE [t EXCEPT !.ext = [ext1 EXCEPT ![t.previous_declaration].next =
                                           current_declaration],
                    !.previous_declaration = current_declaration]

\* The test of parse_translation_unit without the look at the declarator's
\* type.
IsFunctionDefinition_AnyType(object, lx) ==
  get_current_token(lx).type = "LBrace"

\* parse_translation_unit: case FundamentalType::Function with
\* get_current_token(&lexer)->type == TokenType::LBrace
IsFunctionDefinition(object, lx) ==
  object.type.kind = "Function" /\ get_current_token(lx).type = "LBrace"

\* The running function: the top frame's, or parse_translation_unit.
Top(t) == t.frames[Len(t.frames)]
Running(t) == IF t.frames = <<>> THEN "parse_translation_unit" ELSE Top(t).fn
Pop(t) == [t EXCEPT !.frames = SubSeq(t.frames, 1, Len(t.frames) - 1)]
SetTop(t, frame) == [t EXCEPT !.frames[Len(t.frames)] = frame]

\* parse_compound_statement entered: ast_node_anchor.next = nullptr and
\* previous_ast_node = &ast_node_anchor. The block is parsed in the scope
\* it was handed.
CompoundFrame(scope) ==
  [fn |-> "parse_compound_statement", scope |-> scope, anchor_next |-> NULL,
   previous_ast_node |-> ANCHOR]

\* parse_compound_statement:
\*   previous_ast_node->next = current_ast_node;
\*   previous_ast_node = previous_ast_node->next;
\* in the top frame of t. Writing through a null or unset previous_ast_node
\* is undefined.
CompoundAppend(t, current_ast_node) ==
  LET frame == Top(t)
      previous == frame.previous_ast_node
  IN IF previous = ANCHOR
     THEN [ok |-> TRUE,
           tu |-> SetTop(t, [frame EXCEPT !.anchor_next = current_ast_node,
                                          !.previous_ast_node = current_ast_node])]
     ELSE IF previous \in 1..Len(t.ast)
     THEN [ok |-> TRUE,
           tu |-> SetTop([t EXCEPT !.ast[previous] =
                                     SetField(t.ast[previous], "next", current_ast_node)],
                         [frame EXCEPT !.previous_ast_node = current_ast_node])]
     ELSE [ok |-> FALSE, tu |-> t]

\* ------------------------------------ specification: translation unit

\* Most external declarations in an input.
MaxDecls == 2

IntTok == Tok("Int")
Parens == <<Tok("LParen"), Tok("RParen")>>
Braces(body) == <<Tok("LBrace")>> \o body \o <<Tok("RBrace")>>

\* The external declarations drawn: the tokens, the name declared and what
\* the grammar makes of them.
Item(tokens, name, kind) == [tokens |-> tokens, name |-> name, kind |-> kind]
Items ==
  { Item(<<IntTok, Id(<<"x">>), Tok("Semicolon")>>, <<"x">>, "Declaration"),
    Item(<<IntTok, Id(<<"x">>), Tok("Comma"), Tok("Asterisk"), Id(<<"y">>), Tok("Semicolon")>>,
         <<"x">>, "Declaration"),
    Item(<<IntTok, Id(<<"f">>)>> \o Parens \o <<Tok("Semicolon")>>, <<"f">>, "Declaration"),
    Item(<<IntTok, Id(<<"f">>), Tok("LParen"), IntTok, Id(<<"x">>), Tok("RParen")>>
           \o Braces(<<Tok("Return"), Id(<<"x">>), Tok("Semicolon")>>),
         <<"f">>, "FunctionDefinition"),
    Item(<<IntTok, Id(<<"g">>)>> \o Parens \o Braces(<<>>), <<"g">>, "FunctionDefinition"),
    Item(<<IntTok, Tok("Asterisk"), Id(<<"h">>)>> \o Parens
           \o Braces(<<Tok("Return"), Tok("Semicolon")>>),
         <<"h">>, "FunctionDefinition"),
    Item(<<IntTok, Id(<<"g">>)>> \o Parens \o Braces(Braces(<<>>)), <<"g">>,
         "FunctionDefinition"),
    Item(<<IntTok, Id(<<"g">>)>> \o Parens
           \o Braces(Braces(<<>>) \o <<Tok("Return"), Tok("Semicolon")>>),
         <<"g">>, "FunctionDefinition"),
    Item(<<IntTok, Id(<<"g">>)>> \o Parens \o Braces(<<Tok("Semicolon")>>), <<"g">>,
         "FunctionDefinition"),
    Item(<<IntTok, Id(<<"g">>)>> \o Parens
           \o Braces(<<Id(<<"x">>), Tok("Equals"), Num(<<"1">>), Tok("Semicolon")>>),
         <<"g">>, "FunctionDefinition"),
    Item(<<IntTok, Id(<<"g">>)>> \o Parens \o Braces(<<Tok("While")>>), <<"g">>,
         "FunctionDefinition"),
    Item(<<IntTok, Id(<<"g">>)>> \o Parens \o Braces(<<Tok("If")>>), <<"g">>,
         "FunctionDefinition"),
    Item(<<IntTok, Id(<<"g">>)>> \o Parens
           \o Braces(<<IntTok, Id(<<"y">>), Tok("Semicolon")>>),
         <<"g">>, "FunctionDefinition"),
    Item(<<IntTok, Id(<<"g">>)>> \o Parens
           \o Braces(<<IntTok, Id(<<"y">>), Tok("Comma"), Id(<<"z">>), Tok("Semicolon")>>),
         <<"g">>, "FunctionDefinition"),
    Item(<<IntTok, Id(<<"g">>)>> \o Parens
           \o Braces(<<Tok("Break"), Tok("Semicolon")>>),
         <<"g">>, "FunctionDefinition"),
    Item(<<IntTok, Id(<<"g">>)>> \o Parens \o <<Tok("LBrace")>>, <<"g">>,
         "FunctionDefinition"),
    Item(<<IntTok, Id(<<"g">>)>> \o Parens
           \o Braces(Braces(<<Tok("Return"), Tok("Semicolon"), Tok("Return"),
                             Tok("Semicolon")>>)
                     \o <<Tok("Return"), Tok("Semicolon")>>),
         <<"g">>, "FunctionDefinition"),
    Item(<<IntTok, Id(<<"g">>)>> \o Parens
           \o Braces(<<IntTok, Id(<<"x">>), Tok("LBracket"), Id(<<"y">>), Tok("Semicolon"),
                       Tok("Return"), Tok("Semicolon")>>),
         <<"g">>, "FunctionDefinition"),
    Item(<<IntTok, Tok("LParen"), Tok("Asterisk"), Id(<<"p">>), Tok("RParen")>> \o Parens
           \o <<Tok("Semicolon")>>,
         <<"p">>, "Declaration"),
    Item(<<IntTok, Tok("LParen"), Tok("Asterisk"), Id(<<"p">>), Tok("RParen")>> \o Parens
           \o Braces(<<>>),
         <<"p">>, "Error"),
    Item(<<IntTok, Id(<<"x">>)>> \o Braces(<<>>), <<"x">>, "Error"),
    Item(<<Id(<<"x">>), Tok("Semicolon")>>, <<"x">>, "Error") }

RECURSIVE Concat(_)
\* The token sequences of a sequence of items, one after the other.
Concat(items) ==
  IF items = <<>> THEN <<>>
  ELSE Concat(SubSeq(items, 1, Len(items) - 1)) \o items[Len(items)].tokens

\* Lexer lexer = new_lexer(file): no token read yet; Scope current_scope with
\* parent_scope = nullptr; declaration_anchor.next = nullptr;
\* previous_declaration = &declaration_anchor.
InitTU ==
  /\ \E k \in 0..MaxDecls : \E items \in [1..k -> Items] :
       /\ arg = [items |-> items]
       /\ lexer = [tokens |-> Concat(items) \o <<Tok("Eof")>>, index |-> 0]
  /\ scopes = <<Scope({}, {}, NULL)>>
  /\ pc = "call"
  /\ ret = None
  /\ tu = [called |-> TRUE, ast |-> <<>>, ext |-> <<>>, anchor_next |-> NULL,
           previous_declaration |-> ANCHOR, frames |-> <<>>,
           pending |-> [ast_node |-> NULL], hist |-> <<>>, unrecorded |-> 0]

\* How parse_translation_unit ends: it returns the list, or parsing stops
\* at a diagnostic, or the behaviour is undefined.
TUEnd(status, fields) ==
  [x \in {"fn", "status"} \cup DOMAIN fields |->
     IF x = "fn" THEN "parse_translation_unit"
     ELSE IF x = "status" THEN status ELSE fields[x]]

TUStops(r) ==
  /\ pc' = "return"
  /\ ret' = TUEnd(r.status, IF "diag" \in DOMAIN r THEN [diag |-> r.diag] ELSE <<>>)

InTU(fn) == pc = "parsing" /\ Running(tu) = fn

\* for (get_next_token(&lexer); ...
TUStart ==
  /\ pc = "call" /\ tu.called
  /\ lexer' = get_next_token(lexer)
  /\ pc' = "parsing"
  /\ UNCHANGED <<scopes, arg, ret, tu>>

\* ... get_current_token(&lexer)->type != TokenType::Eof;) fails:
\* return declaration_anchor.next
TUReturn ==
  /\ InTU("parse_translation_unit")
  /\ get_current_token(lexer).type = "Eof"
  /\ pc' = "return"
  /\ ret' = TUEnd("ok", [value |-> tu.anchor_next])
  /\ UNCHANGED <<lexer, scopes, arg, tu>>

\* if (!token_is_declaration_specifier(...)) error_token(...)
TUExpectedDeclaration ==
  /\ InTU("parse_translation_unit")
  /\ get_current_token(lexer).type # "Eof"
  /\ ~token_is_declaration_specifier(scopes, get_current_token(lexer), 1)
  /\ TUStops(error_token(lexer, "Expected declaration specifier"))
  /\ UNCHANGED <<lexer, scopes, arg, tu>>

\* The head of an iteration of the loop of parse_translation_unit: the
\* specifiers, the fundamental type, and the declarator.
TUDeclarator ==
  LET specifiers == parse_declaration_specifiers(lexer, 1, <<>>)
      fundamental_type_ptr == declaration_to_fundamental_type(specifiers.declaration)
  IN [base |-> fundamental_type_ptr,
      declarator |-> Declarator(specifiers.lexer, fundamental_type_ptr)]

\* What the model remembers of an external declaration for the properties:
\* its first token, whether the declarator's type was a function, and the
\* token after the declarator; end, the token after the last one the
\* iteration consumed, is added when the entry is appended, and so is
\* produced, the nodes the items of a function body produced, in the order
\* they were produced.
Remember(first, d) ==
  [first |-> first, name |-> d.object.name,
   is_function |-> d.object.type.kind = "Function",
   after |-> get_current_token(d.lexer).type]

\* An iteration that ends in parse_rest_of_declaration (or in a diagnostic
\* of the declarator): the entry is a Declaration.
TUDeclaration ==
  /\ InTU("parse_translation_unit")
  /\ token_is_declaration_specifier(scopes, get_current_token(lexer), 1)
  /\ Len(tu.ast) < MaxNodes
  /\ \E h \in {TUDeclarator} : \E d \in {h.declarator} :
       IF d.status # "ok"
       THEN TUStops(d) /\ lexer' = d.lexer /\ UNCHANGED tu
       ELSE /\ ~IsFunctionDefinition(d.object, d.lexer)
            /\ \E rest \in {parse_rest_of_declaration(d.lexer, h.base)} :
                 LET ast_node == Len(tu.ast) + 1
                     node == SetField(new_ast_node("Declaration"), "object", d.object)
                 IN IF rest.status # "ok"
                    THEN TUStops(rest) /\ lexer' = rest.lexer /\ UNCHANGED tu
                    ELSE /\ lexer' = rest.lexer
                         /\ tu' = [AppendExternal([tu EXCEPT !.ast = Append(@, node)],
                                                  "Declaration", ast_node)
                                     EXCEPT !.hist =
                                       Append(@, SetField(Remember(lexer.index, d),
                                                          "end", rest.lexer.index))]
                         /\ UNCHANGED <<pc, ret>>
  /\ UNCHANGED <<scopes, arg>>

\* An iteration that finds a function followed by {: parse_compound_statement
\* is entered with &current_scope, past the {.
TUFunctionBody ==
  /\ InTU("parse_translation_unit")
  /\ token_is_declaration_specifier(scopes, get_current_token(lexer), 1)
  /\ Len(tu.ast) < MaxNodes
  /\ \E d \in {TUDeclarator.declarator} :
        /\ d.status = "ok"
        /\ IsFunctionDefinition(d.object, d.lexer)
        /\ lexer' = get_next_token(d.lexer)
        /\ tu' = [tu EXCEPT
                    !.ast = Append(@, SetField(new_ast_node("Declaration"), "object",
                                               d.object)),
                    !.pending = [ast_node |-> Len(tu.ast) + 1,
                                 hist |-> Remember(lexer.index, d),
                                 produced |-> <<>>],
                    !.frames = Append(@, CompoundFrame(1))]
  /\ UNCHANGED <<scopes, pc, arg, ret>>

\* An iteration of a loop that allocates a node and is at the same token
\* after it, once the heap holds MaxNodes nodes: the node is not recorded,
\* only that one more iteration ran.
Unrecorded ==
  /\ tu' = [tu EXCEPT !.unrecorded = 1 - @]
  /\ UNCHANGED <<pc, ret>>

\* parse_statement, case LBrace: a block in a block, in the same scope.
CompoundNestedBlock ==
  /\ InTU("parse_compound_statement")
  /\ get_current_token(lexer).type = "LBrace"
  /\ lexer' = get_next_token(lexer)
  /\ tu' = [tu EXCEPT !.frames = Append(@, CompoundFrame(Top(tu).scope))]
  /\ UNCHANGED <<scopes, pc, arg, ret>>

\* The loop body of parse_compound_statement received current_ast_node from
\* its callee and links it.
CompoundLinks(t, current_ast_node) ==
  LET linked == CompoundAppend(t, current_ast_node)
  IN IF linked.ok
     THEN tu' = linked.tu /\ UNCHANGED <<pc, ret>>
     ELSE tu' = t /\ TUStops([status |-> "ub"])

\* parse_statement, the jump keywords: parse_jump_statement
CompoundJump ==
  /\ InTU("parse_compound_statement")
  /\ get_current_token(lexer).type \in JumpKeywords
  /\ Len(tu.ast) < MaxNodes
  /\ \E r \in {parse_jump_statement(lexer)} :
        /\ lexer' = r.lexer
        /\ IF r.status # "ok" THEN TUStops(r) /\ UNCHANGED tu
           ELSE CompoundLinks([tu EXCEPT !.ast = Append(@, r.node),
                                         !.pending.produced = Append(@, Len(tu.ast) + 1)],
                              Len(tu.ast) + 1)
  /\ UNCHANGED <<scopes, arg>>

\* parse_statement, every other token that starts no declaration:
\* parse_labeled_statement, parse_selection_statement,
\* parse_iteration_statement and parse_expression_statement each return a
\* new Void node and leave the lexer where it is.
CompoundStatement ==
  /\ InTU("parse_compound_statement")
  /\ get_current_token(lexer).type \notin JumpKeywords \cup {"LBrace", "RBrace"}
  /\ ~token_is_declaration_specifier(scopes, get_current_token(lexer), Top(tu).scope)
  /\ IF Len(tu.ast) < MaxNodes
     THEN CompoundLinks([tu EXCEPT !.ast = Append(@, new_ast_node("Void")),
                                   !.pending.produced = Append(@, Len(tu.ast) + 1)],
                        Len(tu.ast) + 1)
     ELSE Unrecorded
  /\ UNCHANGED <<lexer, scopes, arg>>

\* parse_compound_statement calls parse_declaration, which allocates its
\* list head, reads the specifiers and enters its loop.
CompoundDeclaration ==
  /\ InTU("parse_compound_statement")
  /\ get_current_token(lexer).type # "RBrace"
  /\ token_is_declaration_specifier(scopes, get_current_token(lexer), Top(tu).scope)
  /\ Len(tu.ast) < MaxNodes
  /\ lexer' = parse_declaration_specifiers(lexer, Top(tu).scope, <<>>).lexer
  /\ tu' = [tu EXCEPT !.ast = Append(@, new_ast_node("Declaration")),
                      !.frames = Append(@, [fn |-> "parse_declaration",
                                            ast_node |-> Len(tu.ast) + 1,
                                            current_ast_node |-> Len(tu.ast) + 1])]
  /\ UNCHANGED <<scopes, pc, arg, ret>>

\* parse_declaration, the loop body:
\*   current_ast_node->next = parse_init_declarator(lexer);
\*   current_ast_node = current_ast_node->next;
\* parse_init_declarator allocates the node and calls parse_declarator; the
\* initializer parser is empty.
DeclarationInitDeclarator ==
  /\ InTU("parse_declaration")
  /\ get_current_token(lexer).type # "Semicolon"
  /\ \E r \in {parse_declarator(lexer)}, frame \in {Top(tu)}, node \in {Len(tu.ast) + 1} :
        /\ lexer' = r.lexer
        /\ IF r.status # "ok" THEN TUStops(r) /\ UNCHANGED tu
           ELSE IF Len(tu.ast) >= MaxNodes THEN r.lexer = lexer /\ Unrecorded
           ELSE /\ tu' = SetTop([tu EXCEPT
                                   !.ast = Append([@ EXCEPT ![frame.current_ast_node] =
                                                     SetField(@, "next", node)],
                                                  new_ast_node("Declaration")),
                                   !.pending.produced = Append(@, node)],
                                [frame EXCEPT !.current_ast_node = node])
                /\ UNCHANGED <<pc, ret>>
  /\ UNCHANGED <<scopes, arg>>

\* parse_declaration: return ast_node->next, at the ; which it leaves.
DeclarationReturn ==
  /\ InTU("parse_declaration")
  /\ get_current_token(lexer).type = "Semicolon"
  /\ CompoundLinks(Pop(tu), Field(tu.ast[Top(tu).ast_node], "next"))
  /\ UNCHANGED <<lexer, scopes, arg>>

\* parse_compound_statement at }: past it, return ast_node_anchor.next, to
\* the block around it or to parse_translation_unit, which stores it as the
\* function body and appends the FunctionDefinition.
CompoundStatementEnd ==
  /\ InTU("parse_compound_statement")
  /\ get_current_token(lexer).type = "RBrace"
  /\ lexer' = get_next_token(lexer)
  /\ LET t == Pop(tu)
         value == Top(tu).anchor_next
         ast_node == tu.pending.ast_node
     IN IF t.frames # <<>> THEN CompoundLinks(t, value)
        ELSE /\ tu' = [AppendExternal(
                         [t EXCEPT !.ast[ast_node].object =
                                     SetField(@, "function_body", value)],
                         "FunctionDefinition", ast_node)
                         EXCEPT !.hist =
                                  Append(@, SetField(SetField(tu.pending.hist, "end",
                                                              get_next_token(lexer).index),
                                                     "produced", tu.pending.produced)),
                                !.pending = [ast_node |-> NULL]]
             /\ UNCHANGED <<pc, ret>>
  /\ UNCHANGED <<scopes, arg>>

NextTU ==
  \/ TUStart
  \/ TUReturn
  \/ TUExpectedDeclaration
  \/ TUDeclaration
  \/ TUFunctionBody
  \/ CompoundNestedBlock
  \/ CompoundJump
  \/ CompoundStatement
  \/ CompoundDeclaration
  \/ DeclarationInitDeclarator
  \/ DeclarationReturn
  \/ CompoundStatementEnd

SpecTU == InitTU /\ [][NextTU]_vars

\* The parser is sequential: a call that can take a step takes it.
FairSpecTU == SpecTU /\ WF_vars(NextTU)

\* ------------------------------------------- properties: translation unit

\* The root AST node's entity of an external declaration.
EntityOf(entry) == tu.ast[entry.root_ast_node].object

\* C2: an external declaration is recorded as FunctionDefinition if and only
\* if the declarator's type is a function and the token after the declarator
\* is {, and then a compound statement was parsed (through its }) and stored
\* as the entity's body; every other entry is recorded as Declaration, the
\* rest of its init-declarator list was parsed (through its ;) and the
\* entity has no body.
C2_FunctionDefinitionIff ==
  tu.called =>
    \A i \in 1..Len(tu.ext) :
      LET entry == tu.ext[i]
          h == tu.hist[i]
          last == lexer.tokens[h.end - 1].type
      IN /\ entry.type \in {"FunctionDefinition", "Declaration"}
         /\ entry.type = "FunctionDefinition" <=> (h.is_function /\ h.after = "LBrace")
         /\ EntityOf(entry).type.kind = "Function" <=> h.is_function
         /\ entry.type = "FunctionDefinition" =>
              "function_body" \in DOMAIN EntityOf(entry) /\ last = "RBrace"
         /\ entry.type = "Declaration" =>
              "function_body" \notin DOMAIN EntityOf(entry) /\ last = "Semicolon"

\* A function definition with a body and a function declaration without one
\* have both been recorded.
C2_Witness ==
  /\ tu.called
  /\ \E i, j \in 1..Len(tu.ext) :
       /\ tu.ext[i].type = "FunctionDefinition"
       /\ Field(EntityOf(tu.ext[i]), "function_body") \in 1..Len(tu.ast)
       /\ tu.ext[j].type = "Declaration"
       /\ tu.hist[j].is_function

\* C6: parse_translation_unit eventually finishes on every token stream that
\* ends in end-of-input: it returns the list or stops at a diagnostic.
C6_Terminates == <>(pc = "return")

RECURSIVE ListFrom(_, _, _)
\* The entries reached from head through next, at most fuel of them.
ListFrom(ext, head, fuel) ==
  IF head = NULL \/ fuel = 0 THEN <<>>
  ELSE <<head>> \o ListFrom(ext, ext[head].next, fuel - 1)

\* C7: the list parse_translation_unit returns holds one entry per external
\* declaration of the input, linked through next in source order (the i-th
\* entry is the i-th external declaration), the last entry's next is null,
\* and an input with no tokens before end-of-input yields the empty list.
C7_ListInSourceOrder ==
  (Returned("parse_translation_unit") /\ ret.status = "ok") =>
    LET list == ListFrom(tu.ext, ret.value, Len(tu.ext) + 1)
    IN /\ Len(list) = Len(arg.items)
       /\ Len(tu.ext) = Len(arg.items)
       /\ \A i \in 1..Len(list) :
            /\ list[i] = i
            /\ tu.ext[list[i]].type = arg.items[i].kind
            /\ EntityOf(tu.ext[list[i]]).name = arg.items[i].name
            /\ tu.hist[i].first = Len(Concat(SubSeq(arg.items, 1, i - 1))) + 1
       /\ list # <<>> => tu.ext[list[Len(list)]].next = NULL
       /\ arg.items = <<>> => ret.value = NULL

\* parse_translation_unit returned a list of two entries of different types.
C7_Witness ==
  /\ Returned("parse_translation_unit") /\ ret.status = "ok"
  /\ Len(arg.items) = 2
  /\ arg.items[1].kind # arg.items[2].kind
  /\ Len(tu.ext) = 2

RECURSIVE Walk(_, _, _)
\* The node reached from head by following next k - 1 times; a pointer that
\* is no node of the heap leads nowhere.
Walk(ast, head, k) ==
  IF head \notin 1..Len(ast) THEN UNINIT
  ELSE IF k = 1 THEN head
  ELSE Walk(ast, Field(ast[head], "next"), k - 1)

\* C12: the node list parse_compound_statement returns holds, linked through
\* next in program order, every node produced for the declarations and
\* statements of the block; stated for the body of each function definition
\* recorded: its k-th node is the k-th node the block's items produced.
C12_BlockListKeepsNodes ==
  tu.called =>
    \A i \in 1..Len(tu.ext) :
      tu.ext[i].type = "FunctionDefinition" =>
        \A k \in 1..Len(tu.hist[i].produced) :
          Walk(tu.ast, Field(EntityOf(tu.ext[i]), "function_body"), k)
            = tu.hist[i].produced[k]

\* The scope around the block of frame i: the scope of the nearest block
\* around it, or current_scope of parse_translation_unit.
EnclosingScope(frames, i) ==
  LET blocks == {j \in 1..(i - 1) : frames[j].fn = "parse_compound_statement"}
  IN IF blocks = {} THEN 1
     ELSE frames[CHOOSE j \in blocks : \A k \in blocks : k <= j].scope

\* C13: every compound statement, a function body included, is parsed in a
\* scope of its own whose parent is the enclosing scope: the scope of a
\* running parse_compound_statement is not the enclosing scope but a child
\* of it.
C13_BlockOwnsChildScope ==
  tu.called =>
    \A i \in 1..Len(tu.frames) :
      tu.frames[i].fn = "parse_compound_statement" =>
        /\ tu.frames[i].scope # EnclosingScope(tu.frames, i)
        /\ tu.frames[i].scope \in 1..Len(scopes)
        /\ scopes[tu.frames[i].scope].parent_scope = EnclosingScope(tu.frames, i)

====
